---------------------------- MODULE Spec2Model ----------------------------
(***************************************************************************)
(* GlacierWatch: the melt simulator view (SimulatorMode.tsx and its        *)
(* enhanced variant), the simulation calculator and the glacier dataset.   *)
(*                                                                         *)
(* The calculator works on JavaScript numbers.  They are modelled as       *)
(* IEEE-754 binary64 values with correctly rounded operations, so that     *)
(* toFixed and Math.round see the same binary value the program sees.      *)
(***************************************************************************)
EXTENDS Integers, Sequences, FiniteSets, TLC

(***************************************************************************)
(* Natural numbers of arbitrary size: little-endian sequences of 14-bit    *)
(* limbs (products of two limbs and their column sums stay below 2^31).    *)
(***************************************************************************)
LimbBase == 2^14
TopBit == 2^13

Zeros(n) == [k \in 1..n |-> 0]

IsZero(a) == \A k \in 1..Len(a) : a[k] = 0

RECURSIVE BToInt(_)
BToInt(a) == IF a = <<>> THEN 0 ELSE Head(a) + LimbBase * BToInt(Tail(a))

RECURSIVE BMulSmallC(_, _, _)
BMulSmallC(a, k, c) ==
    IF a = <<>> THEN <<c>>
    ELSE LET s == Head(a) * k + c
         IN  <<s % LimbBase>> \o BMulSmallC(Tail(a), k, s \div LimbBase)

\* a * k for 0 <= k < LimbBase; the result has one limb more than a
BMulSmall(a, k) == BMulSmallC(a, k, 0)

RECURSIVE BAddC(_, _, _)
BAddC(a, b, c) ==
    IF a = <<>> THEN <<>>
    ELSE LET s == Head(a) + Head(b) + c
         IN  <<s % LimbBase>> \o BAddC(Tail(a), Tail(b), s \div LimbBase)

\* a + b for operands of the same length whose sum fits that length
BAdd(a, b) == BAddC(a, b, 0)

RECURSIVE BSubC(_, _, _)
BSubC(a, b, c) ==
    IF a = <<>> THEN <<>>
    ELSE LET s == Head(a) - Head(b) - c
         IN  IF s < 0 THEN <<s + LimbBase>> \o BSubC(Tail(a), Tail(b), 1)
                      ELSE <<s>> \o BSubC(Tail(a), Tail(b), 0)

\* a - b for operands of the same length with a >= b
BSub(a, b) == BSubC(a, b, 0)

RECURSIVE BLessFrom(_, _, _)
BLessFrom(a, b, k) ==
    IF k = 0 THEN FALSE
    ELSE IF a[k] # b[k] THEN a[k] < b[k]
    ELSE BLessFrom(a, b, k - 1)

\* a < b for operands of the same length
BLess(a, b) == BLessFrom(a, b, Len(a))

RECURSIVE DivStep(_, _, _, _)
DivStep(a, k, n, r) ==
    IF k = 0 THEN << <<>>, r >>
    ELSE LET cur  == r * LimbBase + a[k]
             rest == DivStep(a, k - 1, n, cur % n)
         IN  << Append(rest[1], cur \div n), rest[2] >>

\* <<a div n, a mod n>> for 0 < n < LimbBase
BDivSmall(a, n) == DivStep(a, Len(a), n, 0)

\* floor(a / 2^d), the length kept
BShiftRight(a, d) ==
    LET q == d \div 14
        r == d % 14
        n == Len(a)
        L(k) == IF k + q <= n THEN a[k + q] ELSE 0
        f == [k \in 1..n |-> (L(k) \div 2^r) + (L(k + 1) % 2^r) * 2^(14 - r)]
    IN  SubSeq(f, 1, n)

\* the 4x4-limb product, 8 limbs
BMul4(a, b) ==
    LET c1 == a[1]*b[1]
        c2 == a[1]*b[2] + a[2]*b[1] + (c1 \div LimbBase)
        c3 == a[1]*b[3] + a[2]*b[2] + a[3]*b[1] + (c2 \div LimbBase)
        c4 == a[1]*b[4] + a[2]*b[3] + a[3]*b[2] + a[4]*b[1] + (c3 \div LimbBase)
        c5 == a[2]*b[4] + a[3]*b[3] + a[4]*b[2] + (c4 \div LimbBase)
        c6 == a[3]*b[4] + a[4]*b[3] + (c5 \div LimbBase)
        c7 == a[4]*b[4] + (c6 \div LimbBase)
    IN  << c1 % LimbBase, c2 % LimbBase, c3 % LimbBase, c4 % LimbBase,
           c5 % LimbBase, c6 % LimbBase, c7 % LimbBase, c7 \div LimbBase >>

(***************************************************************************)
(* A positive binary64 value is [m, e]: m is the 53-bit significand        *)
(* written in 4 limbs with its leading bit at bit 55 (so the low 3 bits    *)
(* are 0) and e its binary exponent: the value is m * 2^(e - 55).          *)
(***************************************************************************)
\* a * 2^d for 0 <= d < 14, the length kept (the bits shifted out are 0)
BShiftLeft(a, d) ==
    LET L(k) == IF k >= 1 THEN a[k] ELSE 0
        f == [k \in 1..Len(a) |-> ((L(k) * 2^d) % LimbBase) + (L(k - 1) \div 2^(14 - d))]
    IN  SubSeq(f, 1, Len(a))

RECURSIVE TopAlign(_, _)
\* an 8-limb nonzero N standing for N * 2^(e - 111), shifted left until bit 111 is set
TopAlign(N, e) ==
    IF N[8] = 0 THEN TopAlign(<<0>> \o SubSeq(N, 1, 7), e - 14)
    ELSE LET d == CHOOSE d \in 0..13 : N[8] * 2^d \in TopBit..(LimbBase - 1)
         IN  [n |-> BShiftLeft(N, d), e |-> e - d]

\* round to nearest, ties to even: N is top-aligned, sticky tells that bits
\* below N were dropped
RoundNearestEven(N, e, sticky) ==
    LET hi   == SubSeq(N, 5, 8)
        g    == hi[1] % 8
        low  == sticky \/ ~IsZero(SubSeq(N, 1, 4))
        odd  == (hi[1] \div 8) % 2 = 1
        up   == g > 4 \/ (g = 4 /\ (low \/ odd))
        down == [hi EXCEPT ![1] = hi[1] - g]
        sum  == BMulSmallC(down, 1, IF up THEN 8 ELSE 0)
    IN  IF sum[5] = 1 THEN [m |-> <<0, 0, 0, TopBit>>, e |-> e + 1]
                      ELSE [m |-> SubSeq(sum, 1, 4), e |-> e]

Normalize(N, e, sticky) ==
    LET t == TopAlign(N, e) IN RoundNearestEven(t.n, t.e, sticky)

\* the double of an integer 0 < k < 2^28
FromInt(k) ==
    Normalize(<<0, 0, 0, 0, 0, 0, k % LimbBase, k \div LimbBase>>, 27, FALSE)

FMul(a, b) == Normalize(BMul4(a.m, b.m), a.e + b.e + 1, FALSE)

\* x / n for an integer 0 < n < LimbBase
FDivInt(x, n) ==
    LET d == BDivSmall(Zeros(4) \o x.m, n)
    IN  Normalize(d[1], x.e, d[2] # 0)

RECURSIVE OddPart(_)
OddPart(t) == IF t % 2 = 1 THEN t ELSE OddPart(t \div 2)

RECURSIVE TrailingZeros(_)
TrailingZeros(t) == IF t % 2 = 1 THEN 0 ELSE 1 + TrailingZeros(t \div 2)

\* x / y for a divisor y with at most 14 significant bits (all of them in
\* the top limb): y = OddPart * 2^(TrailingZeros + y.e - 13)
FDiv(x, y) ==
    LET q == FDivInt(x, OddPart(y.m[4]))
    IN  [m |-> q.m, e |-> q.e - (TrailingZeros(y.m[4]) + y.e - 13)]

\* the double a decimal literal n/d denotes (0 < n < 2^28, 0 < d < LimbBase)
Dec(n, d) == FDivInt(FromInt(n), d)

FLess(x, y) == x.e < y.e \/ (x.e = y.e /\ BLess(x.m, y.m))

\* x + y and x - y (x > y) for operands whose exponents differ by at most 45
FAddSub(x, y, minus) ==
    LET big   == IF FLess(x, y) THEN y ELSE x
        small == IF FLess(x, y) THEN x ELSE y
        X     == Zeros(3) \o big.m \o <<0>>
        Y     == BShiftRight(Zeros(3) \o small.m \o <<0>>, big.e - small.e)
    IN  Normalize(IF minus THEN BSub(X, Y) ELSE BAdd(X, Y), big.e + 14, FALSE)

FAdd(x, y) == FAddSub(x, y, FALSE)
FSub(x, y) == FAddSub(x, y, TRUE)

FMin(x, y) == IF FLess(y, x) THEN y ELSE x

RECURSIVE TimesPow10(_, _)
TimesPow10(a, d) == IF d = 0 THEN a ELSE TimesPow10(BMulSmall(a, 10), d - 1)

\* Number.prototype.toFixed(d) of a positive x below 2^55, as the integer n
\* of the decimal n / 10^d it prints: the n nearest to x * 10^d, the larger
\* one of two equally near.  Math.round is the case d = 0.
ToFixed(x, d) ==
    LET N == TimesPow10(x.m, d)
        s == 55 - x.e
    IN  (BToInt(BShiftRight(N, s - 1)) + 1) \div 2

(***************************************************************************)
(* The dataset (data/glaciers.ts), in the order of the source.  Decimal    *)
(* fields are kept as written, in tenths (volume, meltRate) or hundredths  *)
(* (coordinates); the free-text fields (nameRu, region, description) are   *)
(* left out, nothing computes with them.                                   *)
(***************************************************************************)
tajikistanGlaciers ==
    << [id |-> "fedchenko", name |-> "Fedchenko Glacier",
        coordinates |-> [lat |-> 3885, lng |-> 7225], area |-> 700, volume |-> 1440,
        elevation |-> [min |-> 2900, max |-> 6940], status |-> "melting",
        meltRate |-> 125, temperature |-> -8, thickness |-> 1000, riskLevel |-> "medium"],
       [id |-> "grumm-grzhimailo", name |-> "Grumm-Grzhimailo Glacier",
        coordinates |-> [lat |-> 3875, lng |-> 7210], area |-> 143, volume |-> 180,
        elevation |-> [min |-> 3400, max |-> 6595], status |-> "melting",
        meltRate |-> 83, temperature |-> -12, thickness |-> 350, riskLevel |-> "medium"],
       [id |-> "garmo", name |-> "Garmo Glacier",
        coordinates |-> [lat |-> 3895, lng |-> 7200], area |-> 114, volume |-> 120,
        elevation |-> [min |-> 2800, max |-> 6595], status |-> "critical",
        meltRate |-> 152, temperature |-> -6, thickness |-> 280, riskLevel |-> "high"],
       [id |-> "zeravshan", name |-> "Zeravshan Glacier",
        coordinates |-> [lat |-> 3945, lng |-> 6835], area |-> 134, volume |-> 140,
        elevation |-> [min |-> 2700, max |-> 5489], status |-> "melting",
        meltRate |-> 110, temperature |-> -5, thickness |-> 220, riskLevel |-> "high"],
       [id |-> "fortambek", name |-> "Fortambek Glacier",
        coordinates |-> [lat |-> 3892, lng |-> 7208], area |-> 45, volume |-> 55,
        elevation |-> [min |-> 3100, max |-> 6000], status |-> "stable",
        meltRate |-> 42, temperature |-> -14, thickness |-> 180, riskLevel |-> "low"],
       [id |-> "bivachny", name |-> "Bivachny Glacier",
        coordinates |-> [lat |-> 3888, lng |-> 7215], area |-> 57, volume |-> 70,
        elevation |-> [min |-> 3200, max |-> 5800], status |-> "melting",
        meltRate |-> 98, temperature |-> -10, thickness |-> 200, riskLevel |-> "medium"],
       [id |-> "skogach", name |-> "Skogach Glacier",
        coordinates |-> [lat |-> 3910, lng |-> 7180], area |-> 38, volume |-> 40,
        elevation |-> [min |-> 3400, max |-> 5200], status |-> "critical",
        meltRate |-> 185, temperature |-> -4, thickness |-> 150, riskLevel |-> "high"],
       [id |-> "sugran", name |-> "Sugran Glacier",
        coordinates |-> [lat |-> 3880, lng |-> 7230], area |-> 62, volume |-> 80,
        elevation |-> [min |-> 3000, max |-> 5600], status |-> "melting",
        meltRate |-> 76, temperature |-> -11, thickness |-> 240, riskLevel |-> "medium"] >>

\* the value null of a nullable state (params.glacier, result, currentPhase)
Null == [null |-> TRUE]

\* tajikistanGlaciers.find(g => g.id === value) || null
FindGlacier(value) ==
    IF \E k \in 1..Len(tajikistanGlaciers) : tajikistanGlaciers[k].id = value
    THEN tajikistanGlaciers[CHOOSE k \in 1..Len(tajikistanGlaciers) :
                               /\ tajikistanGlaciers[k].id = value
                               /\ \A j \in 1..(k - 1) : tajikistanGlaciers[j].id # value]
    ELSE Null

\* tajikistanGlaciers.find(g => g.id === id)
getGlacierById(id) ==
    IF \E k \in 1..Len(tajikistanGlaciers) : tajikistanGlaciers[k].id = id
    THEN tajikistanGlaciers[CHOOSE k \in 1..Len(tajikistanGlaciers) :
                                /\ tajikistanGlaciers[k].id = id
                                /\ \A h \in 1..(k - 1) : tajikistanGlaciers[h].id # id]
    ELSE Null

\* tajikistanGlaciers.filter(g => g.status === status)
getGlaciersByStatus(status) ==
    LET Test(g) == g.status = status IN SelectSeq(tajikistanGlaciers, Test)

\* a filter that also lets through the glaciers of a higher risk
getGlaciersByRisk_AtLeast(risk) ==
    LET Test(g) == g.riskLevel = risk \/ g.riskLevel = "high"
    IN  SelectSeq(tajikistanGlaciers, Test)

\* tajikistanGlaciers.filter(g => g.riskLevel === risk)
getGlaciersByRisk(risk) ==
    LET Test(g) == g.riskLevel = risk IN SelectSeq(tajikistanGlaciers, Test)

StressTypes == {"rockfall", "seismic", "warming"}

\* the two simulator views: SimulatorMode.tsx and the enhanced one
Variants == {"basic", "enhanced"}

(***************************************************************************)
(* The simulation calculator: the body of the result effect.  The numeric  *)
(* literals of the source are the doubles they denote.  What depends on    *)
(* the glacier or on one slider alone is tabulated, so that it is computed *)
(* once and not at every completed run.                                    *)
(***************************************************************************)
Lit0_1 == Dec(1, 10)
Lit0_2 == Dec(2, 10)
Lit0_3 == Dec(3, 10)
Lit0_4 == Dec(4, 10)
Lit0_5 == Dec(5, 10)
Lit0_7 == Dec(7, 10)
Lit0_8 == Dec(8, 10)
Lit0_9 == Dec(9, 10)
Lit1_5 == Dec(15, 10)
Lit1 == FromInt(1)
Lit10 == FromInt(10)
Lit50000 == FromInt(50000)

\* the position of a glacier record in the dataset
IndexOf(glacier) ==
    CHOOSE k \in 1..Len(tajikistanGlaciers) : tajikistanGlaciers[k].id = glacier.id

\* the numeric fields the calculator reads, as the doubles the program holds
glacierNumbers ==
    SubSeq([k \in 1..Len(tajikistanGlaciers) |->
               [area         |-> FromInt(tajikistanGlaciers[k].area),
                volume       |-> Dec(tajikistanGlaciers[k].volume, 10),
                thickness    |-> FromInt(tajikistanGlaciers[k].thickness),
                meltRate     |-> Dec(tajikistanGlaciers[k].meltRate, 10),
                elevationMin |-> FromInt(tajikistanGlaciers[k].elevation.min)]],
           1, Len(tajikistanGlaciers))

Num(glacier) == glacierNumbers[IndexOf(glacier)]

\* params.intensity / 100 and params.temperature / 10, by slider position
intensityFactors == SubSeq([i \in 1..100 |-> FDivInt(FromInt(i), 100)], 1, 100)

tempFactors == SubSeq([t \in 1..10 |-> FDivInt(FromInt(t), 10)], 1, 10)

intensityFactor(intensity) == intensityFactors[intensity]

\* the temperature slider taken as a percentage, like the intensity slider
tempFactor_Percent(temperature) == FDivInt(FromInt(temperature), 100)

tempFactor(temperature) == tempFactors[temperature]

\* the loss without its final factor 0.1
iceVolumeLoss_DroppedScale(glacier, intensity, temperature) ==
    FMul(FMul(Num(glacier).volume, intensityFactor(intensity)), tempFactor(temperature))

\* glacier.volume * intensityFactor * tempFactor * 0.1, before any rounding
iceVolumeLoss(glacier, intensity, temperature) ==
    FMul(FMul(FMul(Num(glacier).volume, intensityFactor(intensity)),
              tempFactor(temperature)),
         Lit0_1)

\* all the lost ice taken as meltwater
meltwaterVolume_Full(ice) == ice

meltwaterVolume(ice) == FMul(ice, Lit0_9)

crackDepth(glacier, intensity) ==
    FMul(FMul(Num(glacier).thickness, intensityFactor(intensity)), Lit0_3)

\* getRisk with <= for <
getRisk_Inclusive(value) ==
    IF ~FLess(Lit0_3, value) THEN "low"
    ELSE IF ~FLess(Lit0_7, value) THEN "medium"
    ELSE "high"

\* getRisk with > for <
getRisk_Flipped(value) ==
    IF FLess(Lit0_3, value) THEN "low"
    ELSE IF FLess(Lit0_7, value) THEN "medium"
    ELSE "high"

getRisk(value) ==
    IF FLess(value, Lit0_3) THEN "low"
    ELSE IF FLess(value, Lit0_7) THEN "medium"
    ELSE "high"

floodRisk(intensity, temperature) ==
    getRisk(FMul(intensityFactor(intensity), tempFactor(temperature)))

landslideRisk(glacier, intensity) ==
    getRisk(FMul(intensityFactor(intensity),
                 IF glacier.riskLevel = "high" THEN Lit1_5 ELSE Lit1))

\* the ratio taken of ten times the loss
waterLossRisk_TenTimes(glacier, ice) ==
    getRisk(FDiv(FMul(ice, Lit10), Num(glacier).volume))

waterLossRisk(glacier, ice) == getRisk(FDiv(ice, Num(glacier).volume))

populationFactors ==
    SubSeq([k \in 1..Len(tajikistanGlaciers) |->
               FMul(FDivInt(glacierNumbers[k].area, 100), Lit50000)],
           1, Len(tajikistanGlaciers))

\* the population factor with the area divided by 1000
populationFactor_PerThousand(glacier) ==
    FMul(FDivInt(Num(glacier).area, 1000), Lit50000)

populationFactor(glacier) == populationFactors[IndexOf(glacier)]

\* the amount printed in front of the currency label
estimatedDamage(ice) == ToFixed(FMul(ice, Lit10), 0)

affectedPopulation(glacier, intensity) ==
    ToFixed(FMul(populationFactor(glacier), intensityFactor(intensity)), 0)

VulnerablePointOf(n, stress) ==
    LET baseX == FAdd(Lit0_3, FMul(FDivInt(n.meltRate, 20), Lit0_4))
        baseY == IF stress = "warming" THEN Lit0_8 ELSE Lit0_5
    IN  [x |-> FMin(Lit0_9, FAdd(baseX, FMul(FDivInt(n.thickness, 1000), Lit0_2))),
         y |-> FSub(baseY, FDivInt(n.elevationMin, 10000))]

vulnerablePoints ==
    SubSeq([k \in 1..Len(tajikistanGlaciers) |->
               [stress \in StressTypes |-> VulnerablePointOf(glacierNumbers[k], stress)]],
           1, Len(tajikistanGlaciers))

\* the point with the stress-dependent height taken for both coordinates
calculateVulnerablePoint_StressInX(glacier, stress) ==
    [x |-> vulnerablePoints[IndexOf(glacier)][stress].y,
     y |-> vulnerablePoints[IndexOf(glacier)][stress].y]

calculateVulnerablePoint(glacier, stress) == vulnerablePoints[IndexOf(glacier)][stress]

\* The object given to setResult.  iceVolumeLoss and meltwaterVolume are in
\* hundredths (toFixed(2)); crackDepth, the estimated damage and the affected
\* population are integers (toFixed(0), Math.round).  parseFloat of a printed
\* decimal is one-to-one on these, so the decimal stands for the number.

\* the fields both views set, from the unrounded loss
BasicFields(p, ice) ==
    [vulnerablePoint |-> calculateVulnerablePoint(p.glacier, p.stressType),
     iceVolumeLoss   |-> ToFixed(ice, 2),
     meltwaterVolume |-> ToFixed(meltwaterVolume(ice), 2),
     crackDepth      |-> ToFixed(crackDepth(p.glacier, p.intensity), 0),
     floodRisk       |-> floodRisk(p.intensity, p.temperature),
     landslideRisk   |-> landslideRisk(p.glacier, p.intensity),
     waterLossRisk   |-> waterLossRisk(p.glacier, ice)]

\* the two fields the enhanced view adds
EnhancedFields(p, ice) ==
    [estimatedDamage    |-> [amount |-> estimatedDamage(ice), unit |-> "mln $"],
     affectedPopulation |-> affectedPopulation(p.glacier, p.intensity)]

ResultObject(v, basic, enhanced) ==
    IF v = "basic" THEN basic
    ELSE [vulnerablePoint |-> basic.vulnerablePoint,
          iceVolumeLoss |-> basic.iceVolumeLoss,
          meltwaterVolume |-> basic.meltwaterVolume,
          crackDepth |-> basic.crackDepth,
          floodRisk |-> basic.floodRisk,
          landslideRisk |-> basic.landslideRisk,
          waterLossRisk |-> basic.waterLossRisk,
          estimatedDamage |-> enhanced.estimatedDamage,
          affectedPopulation |-> enhanced.affectedPopulation]

ResultOfLoss(v, p, ice) == ResultObject(v, BasicFields(p, ice), EnhancedFields(p, ice))

SimulationResult(v, p) ==
    ResultOfLoss(v, p, iceVolumeLoss(p.glacier, p.intensity, p.temperature))

(***************************************************************************)
(* The simulator view.                                                     *)
(***************************************************************************)
VARIABLES
    variant,        \* which of the two views is mounted
    params,         \* useState<SimulationParams>
    isSimulating,   \* useState(false)
    progress,       \* useState(0)
    result,         \* useState<SimulationResult | null>(null)
    currentPhase,   \* useState<SimulationPhase | null>(null), enhanced view only
    timers,         \* the number of intervals set by runSimulation and not yet cleared
    lastOp,         \* history: the handler that ran last
    geometryRebuilt,\* history: the renders of the last handler ran the geometry useMemo factories
    mesh,           \* a mesh builder at work: its inputs, its loop position, its arrays
    frame,          \* a mounted GlacierModel: its props, its refs, the objects useFrame writes
    education       \* a mounted EducationMode: its four useState values

vars == <<variant, params, isSimulating, progress, result, currentPhase, timers, lastOp,
          geometryRebuilt, mesh, frame, education>>

\* no mesh builder at work, no GlacierModel under observation
Idle == [idle |-> TRUE]

\* bounds of the model
NumGlaciers == 2
SliderChoices == 1
MaxTimers == 2

\* constants of the program
InitialIntensity == 50
InitialTemperature == 5
MinIntensity == 10
MaxIntensity == 100
MinTemperature == 1
MaxTemperature == 10
ProgressEnd == 100
StepBasic == 2
StepEnhanced == 1

\* the options of the glacier <select> the model picks from: the empty
\* option and the first NumGlaciers glaciers
SelectValues ==
    {""} \cup {tajikistanGlaciers[k].id :
                 k \in 1..(IF NumGlaciers < Len(tajikistanGlaciers)
                           THEN NumGlaciers ELSE Len(tajikistanGlaciers))}

\* the slider positions the model drags to
IntensityValues ==
    {v \in MinIntensity..MaxIntensity :
        \E k \in 1..SliderChoices : v = MaxIntensity - 45 * (k - 1)}

TemperatureValues ==
    {v \in MinTemperature..MaxTemperature :
        \E k \in 1..SliderChoices : v = MaxTemperature - 9 * (k - 1)}

\* stressPhases: each phase is its id and the progress at which it ends
stressPhases ==
    [rockfall |-> << [id |-> "impact", progress |-> 15],
                     [id |-> "cracks", progress |-> 35],
                     [id |-> "fragmentation", progress |-> 55],
                     [id |-> "melting", progress |-> 80],
                     [id |-> "runoff", progress |-> 100] >>,
     seismic  |-> << [id |-> "waves", progress |-> 10],
                     [id |-> "vibration", progress |-> 30],
                     [id |-> "crevasses", progress |-> 50],
                     [id |-> "calving", progress |-> 75],
                     [id |-> "collapse", progress |-> 100] >>,
     warming  |-> << [id |-> "heating", progress |-> 20],
                     [id |-> "surface", progress |-> 40],
                     [id |-> "moulins", progress |-> 60],
                     [id |-> "basal", progress |-> 80],
                     [id |-> "retreat", progress |-> 100] >>]

simulationPhases(stressType) == stressPhases[stressType]

\* a find that takes a phase only while progress is below its threshold
FindPhase_Strict(phases, prog) ==
    IF \E k \in 1..Len(phases) : prog < phases[k].progress
    THEN phases[CHOOSE k \in 1..Len(phases) :
                   /\ prog < phases[k].progress
                   /\ \A j \in 1..(k - 1) : ~(prog < phases[j].progress)]
    ELSE phases[Len(phases)]

\* simulationPhases.find(p => progress <= p.progress) || the last phase
FindPhase(phases, prog) ==
    IF \E k \in 1..Len(phases) : prog <= phases[k].progress
    THEN phases[CHOOSE k \in 1..Len(phases) :
                   /\ prog <= phases[k].progress
                   /\ \A j \in 1..(k - 1) : ~(prog <= phases[j].progress)]
    ELSE phases[Len(phases)]

\* the steps of the two views exchanged
Step_Swapped == IF variant = "basic" THEN StepEnhanced ELSE StepBasic

Step == IF variant = "basic" THEN StepBasic ELSE StepEnhanced

\* The two effects, run on the state a handler left.  Both read the state
\* of the same render; after them neither has anything left to do (the run
\* is over or the phase is already the one found), so one round is the
\* whole cascade.
PhaseEffect(p, sim, prog, phase) ==
    IF variant = "enhanced" /\ sim /\ prog > 0
    THEN FindPhase(simulationPhases(p.stressType), prog)
    ELSE phase

ResultFires(p, sim, prog) == prog >= ProgressEnd /\ p.glacier # Null /\ sim

\* GlacierScene hands each builder a glacierData object literal made anew by
\* every render while a glacier is selected, and undefined otherwise; the
\* useMemo of the builder compares it with the one of the render before
GlacierDataChanged(old, new) == ~(old = Null /\ new = Null)

\* a handler that sets the state to what it was causes no render
Rendered(p, sim, prog, res, phase) ==
    <<p, sim, prog, res, phase>> # <<params, isSimulating, progress, result, currentPhase>>

CommitRender(p, sim, prog, res, phase, rendered) ==
    /\ params' = p
    /\ geometryRebuilt' = (rendered /\ GlacierDataChanged(params.glacier, p.glacier))
    /\ UNCHANGED <<mesh, frame, education>>
    /\ progress' = prog
    /\ currentPhase' = PhaseEffect(p, sim, prog, phase)
    /\ IF ResultFires(p, sim, prog)
       THEN /\ result' = SimulationResult(variant, p)
            /\ isSimulating' = FALSE
       ELSE /\ result' = res
            /\ isSimulating' = sim

Commit(p, sim, prog, res, phase) ==
    CommitRender(p, sim, prog, res, phase, Rendered(p, sim, prog, res, phase))

Init ==
    /\ variant \in Variants
    /\ params = [glacier |-> Null, stressType |-> "warming",
                 intensity |-> InitialIntensity, temperature |-> InitialTemperature]
    /\ isSimulating = FALSE
    /\ progress = 0
    /\ result = Null
    /\ currentPhase = Null
    /\ timers = 0
    /\ lastOp = "mount"
    /\ geometryRebuilt = TRUE
    /\ mesh = Idle
    /\ frame = Idle
    /\ education = Idle

\* resetSimulation without setProgress(0)
resetSimulation_KeepProgress(p) == Commit(p, FALSE, progress, Null, Null)

\* resetSimulation, as the values it sets
resetSimulation(p) == Commit(p, FALSE, 0, Null, Null)

\* the glacier <select> without the call of resetSimulation
SelectGlacier_NoReset ==
    \E value \in SelectValues :
        /\ FindGlacier(value) # params.glacier
        /\ Commit([params EXCEPT !.glacier = FindGlacier(value)],
                  isSimulating, progress, result, currentPhase)
        /\ lastOp' = "select"
        /\ UNCHANGED <<variant, timers>>

\* the glacier <select>: a change event carries a value other than the shown one
SelectGlacier ==
    \E value \in SelectValues :
        /\ FindGlacier(value) # params.glacier
        /\ resetSimulation([params EXCEPT !.glacier = FindGlacier(value)])
        /\ lastOp' = "select"
        /\ UNCHANGED <<variant, timers>>

SetStressType ==
    \E type \in StressTypes :
        /\ CommitRender([params EXCEPT !.stressType = type],
                        isSimulating, progress, result, currentPhase, TRUE)
        /\ lastOp' = "stress"
        /\ UNCHANGED <<variant, timers>>

\* an intensity slider that also resets the run
SetIntensity_Resets ==
    \E v \in IntensityValues \cup {InitialIntensity} :
        /\ v # params.intensity
        /\ resetSimulation([params EXCEPT !.intensity = v])
        /\ lastOp' = "intensity"
        /\ UNCHANGED <<variant, timers>>

SetIntensity ==
    \E v \in IntensityValues \cup {InitialIntensity} :
        /\ v # params.intensity
        /\ CommitRender([params EXCEPT !.intensity = v],
                        isSimulating, progress, result, currentPhase, TRUE)
        /\ lastOp' = "intensity"
        /\ UNCHANGED <<variant, timers>>

SetTemperature ==
    \E v \in TemperatureValues \cup {InitialTemperature} :
        /\ v # params.temperature
        /\ CommitRender([params EXCEPT !.temperature = v],
                        isSimulating, progress, result, currentPhase, TRUE)
        /\ lastOp' = "temperature"
        /\ UNCHANGED <<variant, timers>>

\* runSimulation without its early return
runSimulation_NoEarlyReturn ==
    /\ ~isSimulating
    /\ lastOp' = "run"
    /\ timers < MaxTimers
    /\ Commit(params, TRUE, 0, Null,
              IF variant = "enhanced"
              THEN simulationPhases(params.stressType)[1] ELSE Null)
    /\ timers' = timers + 1
    /\ UNCHANGED variant

\* runSimulation.  The Run button is disabled while a run is on; with no
\* glacier the handler returns at once.
runSimulation ==
    /\ ~isSimulating
    /\ lastOp' = "run"
    /\ IF params.glacier = Null
       THEN /\ geometryRebuilt' = FALSE
            /\ UNCHANGED <<variant, params, isSimulating, progress, result,
                           currentPhase, timers, mesh, frame, education>>
       ELSE /\ timers < MaxTimers
            /\ Commit(params, TRUE, 0, Null,
                      IF variant = "enhanced"
                      THEN simulationPhases(params.stressType)[1] ELSE Null)
            /\ timers' = timers + 1
            /\ UNCHANGED variant

\* a Reset that also clears every live interval
ResetButton_ClearsIntervals ==
    /\ resetSimulation(params)
    /\ lastOp' = "reset"
    /\ timers' = 0
    /\ UNCHANGED variant

ResetButton ==
    /\ resetSimulation(params)
    /\ lastOp' = "reset"
    /\ UNCHANGED <<variant, timers>>

\* a tick whose updater lacks the prev >= 100 branch
Tick_NoStop ==
    /\ timers > 0
    /\ lastOp' = "tick"
    /\ timers' = timers
    /\ Commit(params, isSimulating, progress + Step, result, currentPhase)
    /\ UNCHANGED variant

\* one tick of one interval: setProgress(prev => ...)
Tick ==
    /\ timers > 0
    /\ lastOp' = "tick"
    /\ timers' = IF progress >= ProgressEnd THEN timers - 1 ELSE timers
    /\ Commit(params, isSimulating,
              IF progress >= ProgressEnd THEN ProgressEnd ELSE progress + Step,
              result, currentPhase)
    /\ UNCHANGED variant

Next ==
    \/ SelectGlacier
    \/ SetStressType
    \/ SetIntensity
    \/ SetTemperature
    \/ runSimulation
    \/ ResetButton
    \/ Tick

Spec == Init /\ [][Next]_vars

(***************************************************************************)
(* The calculator over its whole domain: every glacier, stress type and    *)
(* slider position, one tick before a run completes.                       *)
(***************************************************************************)
CalcInit ==
    /\ variant \in Variants
    /\ params \in [glacier : {tajikistanGlaciers[k] : k \in 1..Len(tajikistanGlaciers)},
                   stressType : StressTypes,
                   intensity : MinIntensity..MaxIntensity,
                   temperature : MinTemperature..MaxTemperature]
    /\ isSimulating = TRUE
    /\ progress = ProgressEnd - Step
    /\ result = Null
    /\ currentPhase = PhaseEffect(params, TRUE, ProgressEnd - Step, Null)
    /\ timers = 1
    /\ lastOp = "tick"
    /\ geometryRebuilt = TRUE
    /\ mesh = Idle
    /\ frame = Idle
    /\ education = Idle

CalcNext == Tick

CalcSpec == CalcInit /\ [][CalcNext]_vars

(***************************************************************************)
(* A run left alone: the state runSimulation leaves with a glacier         *)
(* selected, then nothing but the ticks of the live intervals (the one     *)
(* just set and those of earlier runs not yet cleared).  setInterval keeps *)
(* calling back until it is cleared, hence the fairness of the callback.   *)
(***************************************************************************)
RunInit ==
    /\ variant \in Variants
    /\ params \in [glacier : {FindGlacier(value) : value \in SelectValues \ {""}},
                   stressType : StressTypes,
                   intensity : IntensityValues \cup {InitialIntensity},
                   temperature : TemperatureValues \cup {InitialTemperature}]
    /\ isSimulating = TRUE
    /\ progress = 0
    /\ result = Null
    /\ currentPhase = IF variant = "enhanced"
                      THEN simulationPhases(params.stressType)[1] ELSE Null
    /\ timers \in 1..MaxTimers
    /\ lastOp = "run"
    /\ geometryRebuilt = TRUE
    /\ mesh = Idle
    /\ frame = Idle
    /\ education = Idle

RunNext == Tick

\* what the callback of an interval does to progress and to the intervals:
\* every Tick is such a step, and Tick is enabled exactly when it is
TickUpdater ==
    /\ timers > 0
    /\ timers' = IF progress >= ProgressEnd THEN timers - 1 ELSE timers
    /\ progress' = IF progress >= ProgressEnd THEN ProgressEnd ELSE progress + Step

RunSpec == RunInit /\ [][RunNext]_vars /\ WF_<<progress, timers>>(TickUpdater)

(***************************************************************************)
(* The simulator view with its intervals firing for as long as they are    *)
(* live: setInterval calls back until it is cleared, whatever the user     *)
(* does in between.                                                        *)
(***************************************************************************)
FairSpec == Init /\ [][Next]_vars /\ WF_<<progress, timers>>(TickUpdater)

TypeOK ==
    /\ variant \in Variants
    /\ progress \in 0..ProgressEnd
    /\ timers \in 0..MaxTimers
    /\ isSimulating \in BOOLEAN

(***************************************************************************)
(* The two mesh builders: the geometry useMemo of GlacierModel and the     *)
(* terrainGeometry useMemo of MountainTerrain.  One step is one pass of an *)
(* outer loop.  A vertex is kept as the grid cell it is pushed for and the *)
(* inputs its coordinates are computed from (the coordinates are fixed     *)
(* expressions of sin, sqrt, max and min over exactly these).              *)
(***************************************************************************)
\* bound of the model: the builds of one mesh that are followed
MaxBuilds == 2

\* constants of the program
GlacierSegments == 24
TerrainSegments == 48
TerrainSegmentsSimplified == 32
DefaultSeed == 42

GlacierTypes == {"valley", "mountain", "piedmont"}

\* glacierData as GlacierScene hands it to GlacierModel and to MountainTerrain
ModelData(glacier) ==
    IF glacier = Null THEN Null
    ELSE [thickness |-> glacier.thickness, area |-> glacier.area,
          elevation |-> glacier.elevation]

TerrainData(glacier) ==
    IF glacier = Null THEN Null
    ELSE [elevation |-> glacier.elevation, area |-> glacier.area, id |-> glacier.id]

\* glacierData.id.charCodeAt(0), for the ids of the dataset
CharCodeOfFirst(id) ==
    CASE id \in {"fedchenko", "fortambek"} -> 102
      [] id \in {"grumm-grzhimailo", "garmo"} -> 103
      [] id = "zeravshan" -> 122
      [] id = "bivachny" -> 98
      [] id \in {"skogach", "sugran"} -> 115

\* the inputs the scene gives the builders: the main glacier with or without
\* data, the two data-less glaciers of the educational view, the terrain
MeshInputs ==
    LET selectable == {FindGlacier(value) : value \in SelectValues}
    IN  {[builder |-> "glacier", glacierType |-> "valley", glacierData |-> ModelData(g)] :
            g \in selectable}
        \cup {[builder |-> "glacier", glacierType |-> t, glacierData |-> Null] :
                t \in GlacierTypes}
        \cup {[builder |-> "terrain", glacierData |-> TerrainData(g), simplified |-> b] :
                g \in selectable, b \in BOOLEAN}

Segments(in) ==
    IF in.builder = "glacier" THEN GlacierSegments
    ELSE IF in.simplified THEN TerrainSegmentsSimplified ELSE TerrainSegments

\* vertices.push(x, y, z) of GlacierModel: length, width and height come from
\* the type, the area and the thickness; x, y, z from them and from i, j
GlacierVertex(in, i, j) ==
    [grid |-> <<i, j>>,
     glacierType |-> in.glacierType,
     area |-> IF in.glacierData = Null THEN Null ELSE in.glacierData.area,
     thickness |-> IF in.glacierData = Null THEN Null ELSE in.glacierData.thickness]

\* a terrain whose seed also counts the builds made so far
TerrainVertex_BuildSeed(in, i, j) ==
    [grid |-> <<i, j>>,
     segments |-> Segments(in),
     seed |-> mesh.builds + (IF in.glacierData = Null THEN DefaultSeed
                             ELSE CharCodeOfFirst(in.glacierData.id)),
     elevationRange |-> IF in.glacierData = Null THEN Null
                        ELSE in.glacierData.elevation.max - in.glacierData.elevation.min]

\* vertices.push(x, Math.max(-2, height), z) of MountainTerrain: the height
\* reads i, j, segments, the seed and the elevation range
TerrainVertex(in, i, j) ==
    [grid |-> <<i, j>>,
     segments |-> Segments(in),
     seed |-> IF in.glacierData = Null THEN DefaultSeed
              ELSE CharCodeOfFirst(in.glacierData.id),
     elevationRange |-> IF in.glacierData = Null THEN Null
                        ELSE in.glacierData.elevation.max - in.glacierData.elevation.min]

Vertex(in, i, j) ==
    IF in.builder = "glacier" THEN GlacierVertex(in, i, j) ELSE TerrainVertex(in, i, j)

\* the inner loop over j of the vertex loop
VertexRow(in, i) ==
    SubSeq([k \in 1..(Segments(in) + 1) |-> Vertex(in, i, k - 1)], 1, Segments(in) + 1)

\* the two triangles of a cell with its second triangle wound the other way
CellIndices_MixedWinding(n, i, j) ==
    LET a == i * (n + 1) + j
        b == a + 1
        c == a + n + 1
        d == c + 1
    IN  <<a, c, b, b, d, c>>

\* indices.push(a, c, b); indices.push(b, c, d)
CellIndices(n, i, j) ==
    LET a == i * (n + 1) + j
        b == a + 1
        c == a + n + 1
        d == c + 1
    IN  <<a, c, b, b, c, d>>

\* the inner loop over j of the index loop
IndexRow(n, i) ==
    SubSeq([k \in 1..(6 * n) |-> CellIndices(n, i, (k - 1) \div 6)[((k - 1) % 6) + 1]],
           1, 6 * n)

StartBuild(in, builds, previous) ==
    [inputs |-> in, segments |-> Segments(in), stage |-> "vertices", i |-> 0,
     vertices |-> <<>>, indices |-> <<>>, builds |-> builds, previous |-> previous]

\* the simulator view as mounted, untouched while a builder or a frame is followed
SimulatorAtRest ==
    /\ variant = "basic"
    /\ params = [glacier |-> Null, stressType |-> "warming",
                 intensity |-> InitialIntensity, temperature |-> InitialTemperature]
    /\ isSimulating = FALSE
    /\ progress = 0
    /\ result = Null
    /\ currentPhase = Null
    /\ timers = 0
    /\ geometryRebuilt = TRUE

simulatorVars ==
    <<variant, params, isSimulating, progress, result, currentPhase, timers, geometryRebuilt>>

MeshInit ==
    /\ SimulatorAtRest
    /\ lastOp = "build"
    /\ frame = Idle
    /\ education = Idle
    /\ mesh \in {StartBuild(in, 1, Null) : in \in MeshInputs}

\* for (let i = 0; i <= segments; i++) { for (let j ...) { ... } }
MeshVertexRow ==
    /\ mesh.stage = "vertices"
    /\ mesh' = [mesh EXCEPT
                  !.vertices = @ \o VertexRow(mesh.inputs, mesh.i),
                  !.i = IF mesh.i = mesh.segments THEN 0 ELSE @ + 1,
                  !.stage = IF mesh.i = mesh.segments THEN "indices" ELSE @]
    /\ lastOp' = "vertices"
    /\ UNCHANGED <<simulatorVars, frame, education>>

\* for (let i = 0; i < segments; i++) { for (let j ...) { ... } }, then the
\* arrays are handed to the geometry
MeshIndexRow ==
    /\ mesh.stage = "indices"
    /\ mesh' = [mesh EXCEPT
                  !.indices = @ \o IndexRow(mesh.segments, mesh.i),
                  !.i = @ + 1,
                  !.stage = IF mesh.i = mesh.segments - 1 THEN "done" ELSE @]
    /\ lastOp' = "indices"
    /\ UNCHANGED <<simulatorVars, frame, education>>

\* the factory runs again with inputs equal to those of the build before
MeshRebuild ==
    /\ mesh.stage = "done"
    /\ mesh.builds < MaxBuilds
    /\ mesh' = StartBuild(mesh.inputs, mesh.builds + 1,
                          [vertices |-> mesh.vertices, indices |-> mesh.indices])
    /\ lastOp' = "rebuild"
    /\ UNCHANGED <<simulatorVars, frame, education>>

MeshNext ==
    \/ MeshVertexRow
    \/ MeshIndexRow
    \/ MeshRebuild

MeshSpec == MeshInit /\ [][MeshNext]_vars

(***************************************************************************)
(* Signed numbers and Float32Array elements, for the particle attributes.  *)
(* A signed value is [sign, m, e] with sign in {-1, 0, 1}; m and e are the *)
(* significand and exponent of its magnitude (of 1 for the value 0).       *)
(***************************************************************************)
SZero == [sign |-> 0, m |-> Lit1.m, e |-> Lit1.e]

Signed(sgn, x) == [sign |-> sgn, m |-> x.m, e |-> x.e]

Mag(a) == [m |-> a.m, e |-> a.e]

SNeg(a) == [a EXCEPT !.sign = -a.sign]

SMul(a, b) ==
    IF a.sign = 0 \/ b.sign = 0 THEN SZero
    ELSE Signed(a.sign * b.sign, FMul(Mag(a), Mag(b)))

SAdd(a, b) ==
    IF a.sign = 0 THEN b
    ELSE IF b.sign = 0 THEN a
    ELSE IF a.sign = b.sign THEN Signed(a.sign, FAdd(Mag(a), Mag(b)))
    ELSE IF Mag(a) = Mag(b) THEN SZero
    ELSE IF FLess(Mag(a), Mag(b)) THEN Signed(b.sign, FSub(Mag(b), Mag(a)))
    ELSE Signed(a.sign, FSub(Mag(a), Mag(b)))

SSub(a, b) == SAdd(a, SNeg(b))

SLess(a, b) ==
    IF a.sign # b.sign THEN a.sign < b.sign
    ELSE IF a.sign = 1 THEN FLess(Mag(a), Mag(b))
    ELSE IF a.sign = -1 THEN FLess(Mag(b), Mag(a))
    ELSE FALSE

\* the store into a Float32Array element: the 24-bit significand nearest to
\* the value, ties to even (bit 32 of m is the last bit kept)
ToFloat32(a) ==
    IF a.sign = 0 THEN a
    ELSE LET g    == a.m[3] % 16
             low  == a.m[1] # 0 \/ a.m[2] # 0
             odd  == (a.m[3] \div 16) % 2 = 1
             up   == g > 8 \/ (g = 8 /\ (low \/ odd))
             down == <<a.m[3] - g, a.m[4]>>
             sum  == BMulSmallC(down, 1, IF up THEN 16 ELSE 0)
         IN  IF sum[3] = 1 THEN [sign |-> a.sign, m |-> <<0, 0, 0, TopBit>>, e |-> a.e + 1]
             ELSE [sign |-> a.sign, m |-> <<0, 0, sum[1], sum[2]>>, e |-> a.e]

(***************************************************************************)
(* The per-frame hook of GlacierModel (useFrame) on the main glacier of    *)
(* the scene.  frame holds the props of the last render, which refs are    *)
(* attached, and what the hook writes: the mesh position and scale, the    *)
(* ice material, the two glow opacities and the particle attributes.  The  *)
(* values written from the clock are kept as what they are: the bobbing of *)
(* the mesh and the pulse of a glow, against the values before any frame.  *)
(***************************************************************************)
\* bounds of the model: the particles followed and the frames of one behaviour
NumParticles == 1
MaxFrames == 8

\* scale of the main glacier: 1.8 * historicalScale with no historical view
\* (1.5 in the earlier scene)
FrameScales == {Dec(18, 10), Dec(15, 10)}

\* meltProgress = progress / 100 for progress in 1..100
meltProgressValues == SubSeq([k \in 1..ProgressEnd |-> FDivInt(FromInt(k), 100)], 1, ProgressEnd)

Lit0_97 == Dec(97, 100)
Lit0_35 == Dec(35, 100)
Lit0_54 == Dec(54, 100)
Lit0_04 == Dec(4, 100)
Lit0_75 == Dec(75, 100)
Lit0_25 == Dec(25, 100)
Lit0_78 == Dec(78, 100)
Lit0_12 == Dec(12, 100)

\* the material and the mesh scale before any frame has touched them
UnmeltedIce(scl) ==
    [colour |-> [h |-> Lit0_54, s |-> Lit0_75, l |-> Lit0_78],
     opacity |-> Lit0_97,
     scale |-> [x |-> scl, y |-> scl, z |-> scl]]

\* a melting effect whose vertical scale loses 0.7 of the progress
MeltingEffect_DeeperShrink(scl, prog) ==
    IF prog = 0 THEN UnmeltedIce(scl)
    ELSE LET p == meltProgressValues[prog]
         IN  [colour |-> [h |-> FSub(Lit0_54, FMul(p, Lit0_04)),
                          s |-> FSub(Lit0_75, FMul(p, Lit0_25)),
                          l |-> FAdd(Lit0_78, FMul(p, Lit0_12))],
              opacity |-> FSub(Lit0_97, FMul(p, Lit0_35)),
              scale |-> [x |-> FMul(scl, FAdd(Lit1, FMul(p, Lit0_1))),
                         y |-> FMul(scl, FSub(Lit1, FMul(p, Lit0_7))),
                         z |-> FMul(scl, FAdd(Lit1, FMul(p, Lit0_1)))]]

\* the melting effect: setHSL(0.54 - p*0.04, 0.75 - p*0.25, 0.78 + p*0.12),
\* opacity 0.97 - p*0.35, scale.y = scale*(1 - p*0.5), scale.x = scale.z =
\* scale*(1 + p*0.1); with p = 0 every product is 0 and the operands come back
MeltingEffect(scl, prog) ==
    IF prog = 0 THEN UnmeltedIce(scl)
    ELSE LET p == meltProgressValues[prog]
         IN  [colour |-> [h |-> FSub(Lit0_54, FMul(p, Lit0_04)),
                          s |-> FSub(Lit0_75, FMul(p, Lit0_25)),
                          l |-> FAdd(Lit0_78, FMul(p, Lit0_12))],
              opacity |-> FSub(Lit0_97, FMul(p, Lit0_35)),
              scale |-> [x |-> FMul(scl, FAdd(Lit1, FMul(p, Lit0_1))),
                         y |-> FMul(scl, FSub(Lit1, FMul(p, Lit0_5))),
                         z |-> FMul(scl, FAdd(Lit1, FMul(p, Lit0_1)))]]

SHalf == Signed(1, Lit0_5)
SMinusHalf == Signed(-1, Lit0_5)
STwo == Signed(1, FromInt(2))
SThree == Signed(1, FromInt(3))
S0_02 == Signed(1, Dec(2, 100))
S0_05 == Signed(1, Dec(5, 100))

\* a value of Math.random(), in sixteenths
Draw(k) == IF k = 0 THEN SZero ELSE Signed(1, Dec(k, 16))

\* the six draws of one particle of particleGeometry, and the two draws of
\* one recycling
ParticleDraws == {<<4, 0, 12, 12, 15, 4>>, <<12, 15, 4, 4, 0, 12>>}
RecycleDraws == {<<0, 12>>, <<15, 4>>}

\* positions.push((Math.random() - 0.5) * 3, Math.random() * 0.5,
\* (Math.random() - 0.5) * 2), stored in a Float32BufferAttribute
NewParticlePosition(d) ==
    [x |-> ToFloat32(SMul(SSub(Draw(d[1]), SHalf), SThree)),
     y |-> ToFloat32(SMul(Draw(d[2]), SHalf)),
     z |-> ToFloat32(SMul(SSub(Draw(d[3]), SHalf), STwo))]

\* velocities.push((Math.random() - 0.5) * 0.02, -Math.random() * 0.05 - 0.02,
\* (Math.random() - 0.5) * 0.02), stored in a Float32BufferAttribute
NewParticleVelocity(d) ==
    [x |-> ToFloat32(SMul(SSub(Draw(d[4]), SHalf), S0_02)),
     y |-> ToFloat32(SSub(SNeg(SMul(Draw(d[5]), S0_05)), S0_02)),
     z |-> ToFloat32(SMul(SSub(Draw(d[6]), SHalf), S0_02))]

\* positions[i] += velocities[i] * meltProgress on the three coordinates
MovedParticle(pos, vel, p) ==
    [x |-> ToFloat32(SAdd(pos.x, SMul(vel.x, p))),
     y |-> ToFloat32(SAdd(pos.y, SMul(vel.y, p))),
     z |-> ToFloat32(SAdd(pos.z, SMul(vel.z, p)))]

\* if (positions[i + 1] < -0.5): back to the top at a random place
Recycled(moved, d) ==
    IF SLess(moved.y, SMinusHalf)
    THEN [x |-> ToFloat32(SMul(SSub(Draw(d[1]), SHalf), SThree)),
          y |-> SHalf,
          z |-> ToFloat32(SMul(SSub(Draw(d[2]), SHalf), STwo))]
    ELSE moved

\* a particle that is moved and never put back
AdvanceParticle_NoRecycle(pos, vel, p, d) == MovedParticle(pos, vel, p)

\* one pass of the particle loop
AdvanceParticle(pos, vel, p, d) == Recycled(MovedParticle(pos, vel, p), d)

\* the state of a GlacierModel after its first render, nothing attached yet
NewModel(sel, melt, prog, scl, draws) ==
    [isSelected |-> sel, isMelting |-> melt, progress |-> prog, scale |-> scl,
     meshRef |-> FALSE, glowRef |-> FALSE, outerGlowRef |-> FALSE, particlesRef |-> FALSE,
     frames |-> 0,
     positionY |-> "rest", glowOpacity |-> "material", outerGlowOpacity |-> "material",
     ice |-> UnmeltedIce(scl),
     positions |-> SubSeq([k \in 1..NumParticles |-> NewParticlePosition(draws[k])],
                          1, NumParticles),
     velocities |-> SubSeq([k \in 1..NumParticles |-> NewParticleVelocity(draws[k])],
                           1, NumParticles),
     particleOpacity |-> Lit0_8]

\* the refs React attaches on commit: the mesh always, the glow meshes when
\* isSelected, the points when isMelting
Attached(f) ==
    [f EXCEPT !.meshRef = TRUE, !.glowRef = f.isSelected,
              !.outerGlowRef = f.isSelected, !.particlesRef = f.isMelting]

\* what the hook does once it has found the mesh: the bobbing, the two
\* pulses, the melting effect and the particle loop
FrameBody(f, rnd) ==
    LET moving == f.particlesRef /\ f.isMelting /\ f.progress > 0
    IN  [f EXCEPT
           !.frames = f.frames + 1,
           !.positionY = "bobbing",
           !.glowOpacity = IF f.glowRef /\ f.isSelected THEN "pulse" ELSE @,
           !.outerGlowOpacity = IF f.outerGlowRef /\ f.isSelected THEN "pulse" ELSE @,
           !.ice = IF f.isMelting THEN MeltingEffect(f.scale, f.progress) ELSE @,
           !.positions =
               IF moving
               THEN SubSeq([k \in 1..NumParticles |->
                              AdvanceParticle(f.positions[k], f.velocities[k],
                                              Signed(1, meltProgressValues[f.progress]),
                                              rnd[k])],
                           1, NumParticles)
               ELSE @,
           !.particleOpacity =
               IF moving THEN FMul(meltProgressValues[f.progress], Lit0_8) ELSE @]

\* the hook without its outer test of meshRef.current
FrameCallback_NoMeshGuard(f, rnd) == FrameBody(f, rnd)

\* the callback of useFrame: everything is inside if (meshRef.current)
FrameCallback(f, rnd) ==
    IF f.meshRef THEN FrameBody(f, rnd)
    ELSE [f EXCEPT !.frames = f.frames + 1]

\* the props SimulatorMode can hand down: any selection, any melt flag, and
\* a progress at the start, the middle or the end of a run
FrameProgressValues == {0, ProgressEnd \div 2, ProgressEnd}

FrameInit ==
    /\ SimulatorAtRest
    /\ lastOp = "render"
    /\ mesh = Idle
    /\ education = Idle
    /\ frame \in {NewModel(sel, melt, prog, Dec(18, 10), draws) :
                     sel \in BOOLEAN, melt \in BOOLEAN, prog \in FrameProgressValues,
                     draws \in [1..NumParticles -> ParticleDraws]}

\* the commit of the first render
FrameMount ==
    /\ frame # Idle /\ ~frame.meshRef
    /\ frame' = Attached(frame)
    /\ lastOp' = "mount"
    /\ UNCHANGED <<simulatorVars, mesh, education>>

\* a later render with other props, and its commit
FrameRender ==
    /\ frame # Idle /\ frame.meshRef
    /\ \E sel \in BOOLEAN, melt \in BOOLEAN, prog \in FrameProgressValues :
          /\ <<sel, melt, prog>> # <<frame.isSelected, frame.isMelting, frame.progress>>
          /\ frame' = Attached([frame EXCEPT !.isSelected = sel, !.isMelting = melt,
                                             !.progress = prog])
    /\ lastOp' = "render"
    /\ UNCHANGED <<simulatorVars, mesh, education>>

\* one frame of the render loop
UseFrame ==
    /\ frame # Idle /\ frame.frames < MaxFrames
    /\ \E rnd \in [1..NumParticles -> RecycleDraws] : frame' = FrameCallback(frame, rnd)
    /\ lastOp' = "frame"
    /\ UNCHANGED <<simulatorVars, mesh, education>>

FrameNext ==
    \/ FrameMount
    \/ FrameRender
    \/ UseFrame

FrameSpec == FrameInit /\ [][FrameNext]_vars

(***************************************************************************)
(* The melting effect over the whole range of the progress: a mounted,     *)
(* selected and melting glacier at each progress 0..100, and its frames.   *)
(***************************************************************************)
MeltInit ==
    /\ SimulatorAtRest
    /\ lastOp = "mount"
    /\ mesh = Idle
    /\ education = Idle
    /\ frame \in {Attached(NewModel(TRUE, TRUE, prog, scl, draws)) :
                     prog \in 0..ProgressEnd, scl \in FrameScales,
                     draws \in [1..NumParticles -> ParticleDraws]}

MeltNext == UseFrame

MeltSpec == MeltInit /\ [][MeltNext]_vars

(***************************************************************************)
(* The education view (EducationMode): the layer buttons, the info cards   *)
(* and the historical comparison with its year controls.  The texts are    *)
(* Russian in the source; a description is named here by what it says.     *)
(***************************************************************************)
InitialHistoricalYear == 2024
FirstYear == 1990
LastYear == 2050
YearStep == 10

\* a value of a nullable useState that is not null
Some(x) == [some |-> x]

glacierLayers == <<"snow", "firn", "ice", "basal">>

NumFeatures == 3

historicalData ==
    << [year |-> 1990, description |-> "reference year, area at its maximum"],
       [year |-> 2000, description |-> "retreat begins, about 5% of the area lost"],
       [year |-> 2010, description |-> "melting speeds up, about 15% lost since 1990"],
       [year |-> 2020, description |-> "critical retreat, about 25% of the area lost"],
       [year |-> 2030, description |-> "forecast: about 35% of the area lost"],
       [year |-> 2050, description |-> "forecast: up to 50% of the glaciers lost"] >>

\* the positions of <input type="range" min="1990" max="2050" step="10">
SliderYears == {y \in FirstYear..LastYear : (y - FirstYear) % YearStep = 0}

\* historicalData.find(d => d.year <= historicalYear)
currentHistoricalData(year) ==
    IF \E k \in 1..Len(historicalData) : historicalData[k].year <= year
    THEN historicalData[CHOOSE k \in 1..Len(historicalData) :
                           /\ historicalData[k].year <= year
                           /\ \A j \in 1..(k - 1) : ~(historicalData[j].year <= year)]
    ELSE Null

\* the paragraph under the slider: {showHistorical && ... currentHistoricalData
\* && <p>{currentHistoricalData.description}</p>}
ShownDescription ==
    IF education.showHistorical /\ currentHistoricalData(education.historicalYear) # Null
    THEN Some(currentHistoricalData(education.historicalYear).description)
    ELSE Null

EducationInit ==
    /\ SimulatorAtRest
    /\ lastOp = "mount"
    /\ mesh = Idle
    /\ frame = Idle
    /\ education = [activeLayer |-> Null, showInfo |-> Null,
                    showHistorical |-> FALSE, historicalYear |-> InitialHistoricalYear]

\* setActiveLayer(activeLayer === layer.id ? null : layer.id)
ToggleLayer ==
    /\ \E k \in 1..Len(glacierLayers) :
          education' = [education EXCEPT !.activeLayer =
                           IF @ = Some(glacierLayers[k]) THEN Null
                           ELSE Some(glacierLayers[k])]
    /\ lastOp' = "layer"
    /\ UNCHANGED <<simulatorVars, mesh, frame>>

\* setShowInfo(showInfo === index ? null : index)
ToggleInfo ==
    /\ \E index \in 0..(NumFeatures - 1) :
          education' = [education EXCEPT !.showInfo =
                           IF @ = Some(index) THEN Null ELSE Some(index)]
    /\ lastOp' = "info"
    /\ UNCHANGED <<simulatorVars, mesh, frame>>

\* setShowHistorical(!showHistorical)
ToggleHistorical ==
    /\ education' = [education EXCEPT !.showHistorical = ~@]
    /\ lastOp' = "historical"
    /\ UNCHANGED <<simulatorVars, mesh, frame>>

\* setHistoricalYear(Math.max(1990, historicalYear - 10))
YearBack ==
    /\ education.showHistorical
    /\ education' = [education EXCEPT !.historicalYear =
                        IF @ - YearStep > FirstYear THEN @ - YearStep ELSE FirstYear]
    /\ lastOp' = "back"
    /\ UNCHANGED <<simulatorVars, mesh, frame>>

\* setHistoricalYear(Math.min(2050, historicalYear + 10))
YearForward ==
    /\ education.showHistorical
    /\ education' = [education EXCEPT !.historicalYear =
                        IF @ + YearStep < LastYear THEN @ + YearStep ELSE LastYear]
    /\ lastOp' = "forward"
    /\ UNCHANGED <<simulatorVars, mesh, frame>>

\* onChange={(e) => setHistoricalYear(parseInt(e.target.value))}
YearSlider ==
    /\ education.showHistorical
    /\ \E year \in SliderYears \ {education.historicalYear} :
          education' = [education EXCEPT !.historicalYear = year]
    /\ lastOp' = "slider"
    /\ UNCHANGED <<simulatorVars, mesh, frame>>

EducationNext ==
    \/ ToggleLayer
    \/ ToggleInfo
    \/ ToggleHistorical
    \/ YearBack
    \/ YearForward
    \/ YearSlider

EducationSpec == EducationInit /\ [][EducationNext]_vars

(***************************************************************************)
(* Properties of the simulator view, checked under Spec.                   *)
(***************************************************************************)

\* C1: with no glacier selected, an invocation of runSimulation changes
\* nothing: isSimulating stays false, progress and result are what they
\* were, and no interval is started (so nothing can later be computed for it).
C1_RunWithoutGlacierRejected ==
    [][(lastOp' = "run" /\ params.glacier = Null) =>
          /\ ~isSimulating /\ ~isSimulating'
          /\ progress' = progress
          /\ result' = result
          /\ timers' = timers
          /\ params' = params]_vars

\* Run has been invoked with the empty selection
C1_Witness == lastOp = "run" /\ params.glacier = Null /\ isSimulating = FALSE

\* C2: in every reachable state, a run in progress or a result on display
\* implies a selected glacier.
C2_RunOrResultNeedsGlacier ==
    (isSimulating \/ result # Null) => params.glacier # Null

\* a result is on display, for the selected glacier
C2_Witness == result # Null /\ ~isSimulating /\ params.glacier # Null

\* C9: whenever a result is present, it is the calculator's output for the
\* current glacier, stress type, intensity and temperature.
C9_ResultMatchesCurrentInputs ==
    result # Null => result = SimulationResult(variant, params)

\* C10: a step that changes the selected glacier leaves isSimulating false,
\* progress 0, result null and currentPhase null, whatever they were.
C10_SelectionChangeResets ==
    [][params'.glacier # params.glacier =>
          /\ isSimulating' = FALSE
          /\ progress' = 0
          /\ result' = Null
          /\ currentPhase' = Null]_vars

\* the selection has just changed while an interval of a run was still ticking
C10_Witness ==
    /\ lastOp = "select"
    /\ timers > 0
    /\ isSimulating = FALSE /\ progress = 0 /\ result = Null /\ currentPhase = Null

(***************************************************************************)
(* Properties of the calculator, checked under CalcSpec: result is what a  *)
(* completed run produced for params.  The exact values are rationals,     *)
(* kept as integers: volume is in tenths, so the exact loss in hundredths  *)
(* is volume * intensity * temperature / 1000.                             *)
(***************************************************************************)
Abs(n) == IF n < 0 THEN -n ELSE n

\* the bucket of the exact ratio num / den
ExactBucket(num, den) ==
    IF 10 * num < 3 * den THEN "low"
    ELSE IF 10 * num < 7 * den THEN "medium"
    ELSE "high"

Rank(risk) == CASE risk = "low" -> 1 [] risk = "medium" -> 2 [] risk = "high" -> 3

\* C3: the iceVolumeLoss of a produced result is a 2-decimal value nearest
\* to volume * (intensity/100) * (temperature/10) * 0.1 and its crackDepth an
\* integer nearest to thickness * (intensity/100) * 0.3; at intensity 100
\* and temperature 10 iceVolumeLoss is 0.1 * volume, and for fedchenko the
\* result is 14.40, 12.96 and 300.
C3_IceLossAndCrackDepth ==
    result # Null =>
        LET g == params.glacier
            i == params.intensity
            t == params.temperature
        IN  /\ Abs(result.iceVolumeLoss * 1000 - g.volume * i * t) <= 500
            /\ Abs(result.crackDepth * 1000 - g.thickness * i * 3) <= 500
            /\ (i = MaxIntensity /\ t = MaxTemperature) =>
                   result.iceVolumeLoss = g.volume
            /\ (g.id = "fedchenko" /\ i = MaxIntensity /\ t = MaxTemperature) =>
                   /\ result.iceVolumeLoss = 1440
                   /\ result.meltwaterVolume = 1296
                   /\ result.crackDepth = 300

\* the run of fedchenko at intensity 100 and temperature 10 has completed
C3_Witness ==
    /\ result # Null
    /\ params.glacier.id = "fedchenko"
    /\ params.intensity = MaxIntensity /\ params.temperature = MaxTemperature
    /\ result.iceVolumeLoss = 1440

\* C4, as stated: the meltwaterVolume of a result is 0.9 times the
\* iceVolumeLoss of the same result.
C4_MeltwaterOfReportedLoss ==
    result # Null => 10 * result.meltwaterVolume = 9 * result.iceVolumeLoss

\* C4, amended: the meltwaterVolume of a result is a 2-decimal value nearest
\* to 0.9 times the loss before its rounding, and so differs from 0.9 times
\* the iceVolumeLoss of the result by less than 0.01.
C4_MeltwaterOfUnroundedLoss ==
    result # Null =>
        /\ Abs(result.meltwaterVolume * 10000
               - 9 * params.glacier.volume * params.intensity * params.temperature) <= 5000
        /\ Abs(10 * result.meltwaterVolume - 9 * result.iceVolumeLoss) < 10

\* a result whose two rounded volumes are not in the ratio 0.9
C4_Witness ==
    /\ result # Null
    /\ 10 * result.meltwaterVolume # 9 * result.iceVolumeLoss

\* C5: each risk is the bucket (low below 0.3, medium below 0.7, else high)
\* of its ratio: intensity/100 * temperature/10 for the flood risk,
\* intensity/100 * (1.5 for a high-risk glacier, else 1) for the landslide
\* risk, iceVolumeLoss/volume = intensity * temperature / 10000 for the
\* water-loss risk.
C5_RiskBuckets ==
    result # Null =>
        LET g == params.glacier
            i == params.intensity
            t == params.temperature
        IN  /\ result.floodRisk = ExactBucket(i * t, 1000)
            /\ result.landslideRisk =
                   ExactBucket(i * (IF g.riskLevel = "high" THEN 15 ELSE 10), 1000)
            /\ result.waterLossRisk = ExactBucket(i * t, 10000)

\* a result at the lower threshold of the flood ratio, with the 1.5 weight
\* deciding the landslide risk
C5_Witness ==
    /\ result # Null
    /\ params.intensity * params.temperature = 300
    /\ result.floodRisk = "medium"
    /\ params.glacier.riskLevel = "high"
    /\ params.intensity = 50
    /\ result.landslideRisk = "high"

\* C6: moving the intensity or the temperature one position up, the other
\* held, lowers none of the three risks of the result (so no increase does).
C6_RiskMonotonic ==
    result # Null =>
        LET g == params.glacier
            i == params.intensity
            t == params.temperature
        IN  /\ i < MaxIntensity =>
                   /\ Rank(floodRisk(i + 1, t)) >= Rank(result.floodRisk)
                   /\ Rank(landslideRisk(g, i + 1)) >= Rank(result.landslideRisk)
                   /\ Rank(waterLossRisk(g, iceVolumeLoss(g, i + 1, t)))
                          >= Rank(result.waterLossRisk)
            /\ t < MaxTemperature =>
                   /\ Rank(floodRisk(i, t + 1)) >= Rank(result.floodRisk)
                   /\ Rank(landslideRisk(g, i)) >= Rank(result.landslideRisk)
                   /\ Rank(waterLossRisk(g, iceVolumeLoss(g, i, t + 1)))
                          >= Rank(result.waterLossRisk)

\* a result whose flood risk rises with one more position of the intensity
C6_Witness ==
    /\ result # Null
    /\ params.intensity < MaxIntensity
    /\ result.floodRisk = "low"
    /\ floodRisk(params.intensity + 1, params.temperature) = "medium"

\* C7: no numeric output of a result is negative, and at intensity 10 and
\* temperature 1 the loss before rounding is 0.001 * volume (to 9 decimals).
C7_NoNegativeOutput ==
    result # Null =>
        /\ result.iceVolumeLoss >= 0
        /\ result.meltwaterVolume >= 0
        /\ result.crackDepth >= 0
        /\ variant = "enhanced" =>
               result.affectedPopulation >= 0 /\ result.estimatedDamage.amount >= 0
        /\ (params.intensity = MinIntensity /\ params.temperature = MinTemperature) =>
               ToFixed(iceVolumeLoss(params.glacier, MinIntensity, MinTemperature), 9)
                   = params.glacier.volume * 100000

\* a result at the minimum of both sliders whose loss rounds to 0.00
C7_Witness ==
    /\ result # Null
    /\ params.intensity = MinIntensity /\ params.temperature = MinTemperature
    /\ result.iceVolumeLoss = 0

\* C8: in the enhanced view the estimated damage is an integer nearest to
\* 10 times the loss before rounding, with the currency label, and the
\* affected population is area/100 * 50000 * intensity/100 = 5 * area *
\* intensity, whatever the temperature.
C8_DamageAndPopulation ==
    (result # Null /\ variant = "enhanced") =>
        LET g == params.glacier
            i == params.intensity
            t == params.temperature
        IN  /\ Abs(result.estimatedDamage.amount * 10000 - g.volume * i * t) <= 5000
            /\ result.estimatedDamage.unit = "mln $"
            /\ result.affectedPopulation = 5 * g.area * i

\* an enhanced result of fedchenko at full intensity and the lowest temperature
C8_Witness ==
    /\ result # Null /\ variant = "enhanced"
    /\ params.glacier.id = "fedchenko"
    /\ params.intensity = MaxIntensity /\ params.temperature = MinTemperature
    /\ result.affectedPopulation = 350000
    /\ result.estimatedDamage.amount = 14

(***************************************************************************)
(* Parameters and progress of the simulator view.                          *)
(***************************************************************************)

\* C11: a step that changes the selected glacier leaves the stress type, the
\* intensity and the temperature at their initial values (warming, 50, 5).
C11_SelectionChangeResetsParams ==
    [][params'.glacier # params.glacier =>
          /\ params'.stressType = "warming"
          /\ params'.intensity = InitialIntensity
          /\ params'.temperature = InitialTemperature]_vars

\* C12: in a run left alone (RunSpec) progress never decreases, each tick
\* leaves it or adds the step of the view (2 basic, 1 enhanced), it never
\* passes 100, a result is present only at exactly 100 and with isSimulating
\* false, and eventually a result is present.
C12_RunCompletes ==
    /\ [][\/ progress' = progress
          \/ progress' = progress + (IF variant = "basic" THEN StepBasic ELSE StepEnhanced)]_vars
    /\ [](progress <= ProgressEnd)
    /\ [](result # Null => (progress = ProgressEnd /\ ~isSimulating))
    /\ [](isSimulating => result = Null)
    /\ <>(result # Null /\ ~isSimulating /\ progress = ProgressEnd)

\* the run is over: progress is 100, the result is set, the intervals are cleared
C12_Witness ==
    /\ lastOp = "tick"
    /\ progress = ProgressEnd
    /\ result # Null
    /\ ~isSimulating
    /\ timers = 0

\* C13: in every reachable state 0 <= progress <= 100, whatever the
\* interleaving of handlers and of the ticks of every live interval.
C13_ProgressInRange == progress >= 0 /\ progress <= ProgressEnd

\* progress is 100 while two intervals are still live
C13_Witness == progress = ProgressEnd /\ timers > 1 /\ lastOp = "tick"

\* C15: a step that leaves the selected glacier as it was (the glacier type
\* and the simplified flag never change in this view) rebuilds no geometry.
C15_GeometryRebuiltOnlyOnChange ==
    [][params'.glacier = params.glacier => ~geometryRebuilt']_vars

(***************************************************************************)
(* Properties of the mesh builders, checked under MeshSpec.                *)
(***************************************************************************)

\* the side of the triangle (p, q, r) in the plane of the grid, each index
\* standing for the grid cell corner it was pushed for
Winding(n, p, q, r) ==
    LET row(v) == v \div (n + 1)
        col(v) == v % (n + 1)
    IN  (row(q) - row(p)) * (col(r) - col(p)) - (col(q) - col(p)) * (row(r) - row(p))

\* C14: a finished mesh of an n x n grid (n = 24 for the glacier body, 32 or
\* 48 for the terrain) has (n+1)^2 vertices, vertex i(n+1)+j being the one of
\* grid point (i, j), and 2n^2 triangles; cell (i, j) contributes exactly
\* (a, c, b) and (b, c, d) with a = i(n+1)+j, b = a+1, c = a+n+1, d = c+1;
\* every index is in 0..(n+1)^2-1 and all triangles wind the same way.
C14_GridTriangulation ==
    mesh # Idle /\ mesh.stage = "done" =>
        LET n == mesh.segments
            V == mesh.vertices
            I == mesh.indices
        IN  /\ n = IF mesh.inputs.builder = "glacier" THEN 24
                   ELSE IF mesh.inputs.simplified THEN 32 ELSE 48
            /\ Len(V) = (n + 1) * (n + 1)
            /\ Len(I) = 3 * (2 * n * n)
            /\ \A i \in 0..n, j \in 0..n : V[i * (n + 1) + j + 1].grid = <<i, j>>
            /\ \A i \in 0..(n - 1), j \in 0..(n - 1) :
                   LET k == 6 * (i * n + j)
                       a == i * (n + 1) + j
                       b == a + 1
                       c == a + n + 1
                       d == c + 1
                   IN  /\ <<I[k + 1], I[k + 2], I[k + 3]>> = <<a, c, b>>
                       /\ <<I[k + 4], I[k + 5], I[k + 6]>> = <<b, c, d>>
            /\ \A k \in 1..Len(I) : I[k] \in 0..((n + 1) * (n + 1) - 1)
            /\ \A t \in 0..(2 * n * n - 1) :
                   Winding(n, I[3 * t + 1], I[3 * t + 2], I[3 * t + 3])
                       = Winding(n, I[1], I[2], I[3])

\* a full terrain has been built: 2401 vertices, 4608 triangles
C14_Witness ==
    /\ mesh # Idle /\ mesh.stage = "done"
    /\ mesh.inputs.builder = "terrain" /\ mesh.segments = TerrainSegments
    /\ Len(mesh.vertices) = 2401 /\ Len(mesh.indices) = 13824

FrameOutputs(f) ==
    <<f.positionY, f.ice, f.glowOpacity, f.outerGlowOpacity, f.positions,
      f.velocities, f.particleOpacity>>

\* C17: a frame that finds the main mesh reference unattached changes no
\* position, scale, material colour or opacity and no particle; a glow
\* opacity changes only in a frame with that glow reference attached and
\* isSelected true; particle positions change only in a frame with the
\* particle reference attached, isMelting true and meltProgress > 0.
C17_FrameNoOps ==
    [][(frame # Idle /\ frame' # Idle) =>
          /\ (frame'.frames # frame.frames /\ ~frame.meshRef)
                 => FrameOutputs(frame') = FrameOutputs(frame)
          /\ frame'.glowOpacity # frame.glowOpacity
                 => (frame.glowRef /\ frame.isSelected)
          /\ frame'.outerGlowOpacity # frame.outerGlowOpacity
                 => (frame.outerGlowRef /\ frame.isSelected)
          /\ frame'.positions # frame.positions
                 => (frame.particlesRef /\ frame.isMelting /\ frame.progress > 0)]_vars

\* frames have run on a selected, melting glacier with nothing attached
C17_Witness ==
    /\ frame # Idle /\ lastOp = "frame" /\ frame.frames > 1
    /\ ~frame.meshRef
    /\ frame.isSelected /\ frame.isMelting /\ frame.progress = ProgressEnd
    /\ frame.positionY = "rest" /\ frame.glowOpacity = "material"

\* C18: after a frame on an attached, melting glacier at progress 100p the
\* ice opacity is 0.97 - 0.35p and the mesh scale is y = scale(1 - 0.5p),
\* x = z = scale(1 + 0.1p) (to 8 decimals); the opacity is within
\* [0.62, 0.97], scale y is at least half the base scale and at most the
\* base scale, scale x at least the base scale; and one more step of the
\* progress gives a smaller opacity, a smaller y and a larger x.
C18_MeltingEffect ==
    (frame # Idle /\ lastOp = "frame" /\ frame.meshRef /\ frame.isMelting) =>
        LET prog   == frame.progress
            tenths == ToFixed(frame.scale, 1)
            ice    == frame.ice
        IN  /\ ToFixed(ice.opacity, 8) = (9700 - 35 * prog) * 10000
            /\ ToFixed(ice.scale.y, 8) = tenths * (200 - prog) * 50000
            /\ ToFixed(ice.scale.x, 8) = tenths * (1000 + prog) * 10000
            /\ ice.scale.z = ice.scale.x
            /\ ~FLess(ice.opacity, Dec(62, 100)) /\ ~FLess(Lit0_97, ice.opacity)
            /\ ~FLess(ice.scale.y, FMul(frame.scale, Lit0_5))
            /\ ~FLess(frame.scale, ice.scale.y)
            /\ ~FLess(ice.scale.x, frame.scale)
            /\ prog < ProgressEnd =>
                   LET after == MeltingEffect(frame.scale, prog + 1)
                   IN  /\ FLess(after.opacity, ice.opacity)
                       /\ FLess(after.scale.y, ice.scale.y)
                       /\ FLess(ice.scale.x, after.scale.x)

\* a frame at full progress: opacity 0.62, scale y half of 1.8
C18_Witness ==
    /\ frame # Idle /\ lastOp = "frame" /\ frame.meshRef /\ frame.isMelting
    /\ frame.progress = ProgressEnd
    /\ frame.ice.opacity = Dec(62, 100)
    /\ frame.ice.scale.y = Dec(9, 10)

\* C19: in a frame with the particle reference attached, isMelting and
\* meltProgress > 0 every particle goes to its position plus its velocity
\* times meltProgress, and one whose height is then below -0.5 goes to
\* height 0.5 at a freshly drawn horizontal place; every particle height is
\* within [-0.5, 0.5] at all times and no velocity ever changes.
C19_ParticleRecycling ==
    /\ [](frame # Idle =>
             \A k \in 1..NumParticles :
                 /\ ~SLess(frame.positions[k].y, SMinusHalf)
                 /\ ~SLess(SHalf, frame.positions[k].y))
    /\ [][(frame # Idle /\ frame' # Idle) =>
             /\ frame'.velocities = frame.velocities
             /\ (/\ frame'.frames # frame.frames
                 /\ frame.meshRef /\ frame.particlesRef
                 /\ frame.isMelting /\ frame.progress > 0) =>
                    \A k \in 1..NumParticles :
                        LET p  == Signed(1, meltProgressValues[frame.progress])
                            to == [c \in {"x", "y", "z"} |->
                                     ToFloat32(SAdd(frame.positions[k][c],
                                                    SMul(frame.velocities[k][c], p)))]
                        IN  IF SLess(to.y, SMinusHalf)
                            THEN /\ frame'.positions[k].y = SHalf
                                 /\ \E d \in RecycleDraws :
                                       /\ frame'.positions[k].x =
                                            ToFloat32(SMul(SSub(Draw(d[1]), SHalf), SThree))
                                       /\ frame'.positions[k].z =
                                            ToFloat32(SMul(SSub(Draw(d[2]), SHalf), STwo))
                            ELSE /\ frame'.positions[k].x = to.x
                                 /\ frame'.positions[k].y = to.y
                                 /\ frame'.positions[k].z = to.z]_vars

\* a particle has just been put back at the top
C19_Witness ==
    /\ frame # Idle /\ lastOp = "frame"
    /\ \E k \in 1..NumParticles : frame.positions[k].y = SHalf

(***************************************************************************)
(* Properties of the dataset and its lookup helpers, checked under Spec.   *)
(***************************************************************************)
Statuses == {"stable", "melting", "critical"}

RiskLevels == {"low", "medium", "high"}

Range(seq) == {seq[k] : k \in 1..Len(seq)}

\* ids that no record has: the placeholder of the select, a name, a wrong case
ForeignIds == {"", "Fedchenko Glacier", "FEDCHENKO", "pamir"}

\* list is the records for which Keep holds, in the order of the table
IsFilterOf(list, Keep(_)) ==
    /\ Range(list) = {g \in Range(tajikistanGlaciers) : Keep(g)}
    /\ Len(list) = Cardinality(Range(list))
    /\ \A a, b \in 1..Len(list) :
           a < b => \E h, k \in 1..Len(tajikistanGlaciers) :
                        h < k /\ tajikistanGlaciers[h] = list[a] /\ tajikistanGlaciers[k] = list[b]

DatasetLookups ==
    /\ \A h, k \in 1..Len(tajikistanGlaciers) :
           h # k => tajikistanGlaciers[h].id # tajikistanGlaciers[k].id
    /\ \A k \in 1..Len(tajikistanGlaciers) :
           getGlacierById(tajikistanGlaciers[k].id) = tajikistanGlaciers[k]
    /\ \A id \in ForeignIds : getGlacierById(id) = Null
    /\ \A status \in Statuses :
           LET Keep(g) == g.status = status
           IN  IsFilterOf(getGlaciersByStatus(status), Keep)
    /\ \A risk \in RiskLevels :
           LET Keep(g) == g.riskLevel = risk
           IN  IsFilterOf(getGlaciersByRisk(risk), Keep)
    /\ \A g \in Range(tajikistanGlaciers) :
           /\ Cardinality({status \in Statuses : g \in Range(getGlaciersByStatus(status))}) = 1
           /\ Cardinality({risk \in RiskLevels : g \in Range(getGlaciersByRisk(risk))}) = 1

\* C20: the ids of the dataset are pairwise distinct; getGlacierById gives
\* the record of an id and undefined for an id no record has;
\* getGlaciersByStatus and getGlaciersByRisk give exactly the records of
\* that status or risk level, every record being in one list of each kind;
\* and whatever select, Run, Reset and the ticks have done, the record the
\* view holds is still the record the dataset has under that id.
C20_DatasetReadOnly ==
    /\ DatasetLookups
    /\ params.glacier # Null =>
           /\ params.glacier \in Range(tajikistanGlaciers)
           /\ getGlacierById(params.glacier.id) = params.glacier

\* a run has completed on the second glacier of the list after a reset
C20_Witness ==
    /\ params.glacier = getGlacierById("grumm-grzhimailo")
    /\ result # Null /\ lastOp = "tick" /\ timers = 1
    /\ \E g \in Range(getGlaciersByRisk("medium")) : g = params.glacier

(***************************************************************************)
(* Properties of interrupted and repeated runs, checked under Spec.        *)
(***************************************************************************)

\* C21: once Reset or a change of the selected glacier has stopped a run
\* (isSimulating false, result null), no tick changes progress or sets a
\* result, until Run is invoked again.
C21_StoppedRunStaysAtZero ==
    [][(~isSimulating /\ result = Null /\ lastOp' = "tick") =>
          (progress' = progress /\ result' = Null)]_vars

\* C22: at most one interval is live at any moment.
C22_AtMostOneTimer == timers <= 1

\* C23: the number of live intervals goes down only by one, in a tick that
\* finds progress at 100 or more; and if from some point on the user does
\* nothing more (every step is a tick), then from some point on no interval
\* is live.
C23_TimersEventuallyCleared ==
    /\ [][timers' < timers =>
             (lastOp' = "tick" /\ progress >= ProgressEnd /\ timers' = timers - 1)]_vars
    /\ (<>[][lastOp' = "tick"]_vars) => <>[](timers = 0)

\* two intervals were left live by a Reset and a second Run, and both are cleared
C23_Witness ==
    /\ timers = 0 /\ lastOp = "tick" /\ progress = ProgressEnd
    /\ isSimulating = FALSE /\ result = Null /\ params.glacier # Null

\* C24: a change of the stress type, the intensity or the temperature leaves
\* progress, isSimulating and the live intervals as they were; and the
\* result a completing step produces is the calculator's output for the
\* parameters of that moment.
C24_ParamChangeKeepsRun ==
    /\ [][lastOp' \in {"stress", "intensity", "temperature"} =>
             /\ progress' = progress
             /\ isSimulating' = isSimulating
             /\ timers' = timers
             /\ result' = result]_vars
    /\ [][(result = Null /\ result' # Null) =>
             result' = SimulationResult(variant, params')]_vars

\* the intensity has just been changed in the middle of a run
C24_Witness ==
    /\ lastOp = "intensity" /\ params.intensity # InitialIntensity
    /\ isSimulating /\ result = Null /\ timers = 1
    /\ progress > 0 /\ progress < ProgressEnd

(***************************************************************************)
(* Properties of the phases of the enhanced view, checked under Spec.      *)
(***************************************************************************)
InList(phases, phase) == \E k \in 1..Len(phases) : phases[k] = phase

PhaseIndex(phases, phase) == CHOOSE k \in 1..Len(phases) : phases[k] = phase

\* C25: in the enhanced view, while isSimulating and progress > 0 the
\* current phase is the first phase of the selected stress type whose
\* threshold is at least progress; Run starts at the first phase; while a
\* run goes on with the stress type unchanged the index of the phase stays
\* or goes up by one; the step that completes the run leaves the last phase
\* current; Reset leaves the phase null.
C25_PhaseFollowsProgress ==
    /\ []((variant = "enhanced" /\ isSimulating /\ progress > 0) =>
             LET phases == simulationPhases(params.stressType)
             IN  \E k \in 1..Len(phases) :
                    /\ currentPhase = phases[k]
                    /\ progress <= phases[k].progress
                    /\ \A j \in 1..(k - 1) : progress > phases[j].progress)
    /\ [][variant = "enhanced" =>
             LET phases == simulationPhases(params'.stressType)
             IN  /\ (lastOp' = "run" /\ isSimulating') => currentPhase' = phases[1]
                 /\ (/\ isSimulating /\ lastOp' # "run"
                     /\ (isSimulating' \/ result' # Null)
                     /\ params'.stressType = params.stressType
                     /\ InList(phases, currentPhase)) =>
                        /\ InList(phases, currentPhase')
                        /\ PhaseIndex(phases, currentPhase')
                              \in {PhaseIndex(phases, currentPhase),
                                   PhaseIndex(phases, currentPhase) + 1}
                 /\ (result = Null /\ result' # Null) => currentPhase' = phases[Len(phases)]
                 /\ lastOp' = "reset" => currentPhase' = Null]_vars

\* an enhanced seismic run has just moved from its third to its fourth phase
C25_Witness ==
    /\ variant = "enhanced" /\ isSimulating /\ lastOp = "tick"
    /\ params.stressType = "seismic"
    /\ progress = 51 /\ currentPhase.id = "calving"

(***************************************************************************)
(* Properties of the calculator's risks, checked under CalcSpec.           *)
(***************************************************************************)
\* iceVolumeLoss / glacier.volume as the result effect computes it
LossRatio(p) == FDiv(iceVolumeLoss(p.glacier, p.intensity, p.temperature),
                     Num(p.glacier).volume)

\* C26: for every glacier, intensity in 10..100 and temperature in 1..10 the
\* waterLossRisk of the result a run produces is "low": the ratio
\* iceVolumeLoss / volume, which is (intensity / 100) * (temperature / 10)
\* * 0.1, does not exceed 0.1 (as a quotient of integers exactly, as the
\* binary64 quotient to eight decimals), which is below the threshold 0.3.
C26_WaterLossAlwaysLow ==
    [][(result = Null /\ result' # Null) =>
          /\ result'.waterLossRisk = "low"
          /\ params'.intensity * params'.temperature <= MaxIntensity * MaxTemperature
          /\ ToFixed(LossRatio(params'), 8) <= 10000000]_vars

\* the result at both sliders' maximum, where the ratio is largest
C26_Witness ==
    /\ result # Null /\ lastOp = "tick"
    /\ params.intensity = MaxIntensity /\ params.temperature = MaxTemperature
    /\ result.waterLossRisk = "low"
    /\ result.floodRisk = "high"

\* the result of the rockfall run of the same view, glacier and sliders
RockfallResult(v, p) == SimulationResult(v, [p EXCEPT !.stressType = "rockfall"])

\* base - glacier.elevation.min / 10000
HeightBelow(base, glacier) == FSub(base, FDivInt(FromInt(glacier.elevation.min), 10000))

\* C27: the result a run produces is that of the rockfall run of the same
\* glacier, intensity and temperature but for vulnerablePoint.y (hence any
\* two runs that differ only in the stress type agree on every output and
\* on vulnerablePoint.x); vulnerablePoint.y is 0.8 - elevation.min / 10000
\* for warming and 0.5 - elevation.min / 10000 otherwise; and landslideRisk
\* is a function of the glacier and the intensity alone.
C27_StressTypeNoInfluence ==
    [][(result = Null /\ result' # Null) =>
          /\ RockfallResult(variant, params') =
                [result' EXCEPT !.vulnerablePoint.y =
                    IF params'.stressType = "warming"
                    THEN HeightBelow(Lit0_5, params'.glacier) ELSE @]
          /\ result'.vulnerablePoint.y =
                HeightBelow(IF params'.stressType = "warming" THEN Lit0_8 ELSE Lit0_5,
                            params'.glacier)
          /\ result'.landslideRisk = landslideRisk(params'.glacier, params'.intensity)]_vars

\* a warming result whose vulnerable point is not that of the rockfall run
\* of the same glacier, while its landslide risk is the highest
C27_Witness ==
    /\ result # Null /\ lastOp = "tick"
    /\ params.stressType = "warming"
    /\ result.vulnerablePoint # calculateVulnerablePoint(params.glacier, "rockfall")
    /\ result.landslideRisk = "high"
    /\ params.temperature = MinTemperature

(***************************************************************************)
(* Properties of the education view, checked under EducationSpec.          *)
(***************************************************************************)
\* the latest entry of historicalData whose year is at most the given year
LatestEntry(year) ==
    CHOOSE d \in Range(historicalData) :
        /\ d.year <= year
        /\ \A other \in Range(historicalData) : other.year <= year => other.year <= d.year

\* C28: while the historical comparison is open, for every reachable
\* historicalYear the description shown is that of the latest entry of
\* historicalData whose year is at most historicalYear.
C28_LatestDescriptionShown ==
    (education # Idle /\ education.showHistorical) =>
        ShownDescription = Some(LatestEntry(education.historicalYear).description)

(***************************************************************************)
(* The look of the glacier once the melt flag is off, checked under        *)
(* FrameSpec.                                                              *)
(***************************************************************************)
\* C29: whenever the melt flag of a mounted glacier is false, its mesh has
\* the base scale on all three axes and its ice material has opacity 0.97
\* and the initial colour (so after Reset the melted look is gone).
C29_UnmeltedWhenNotMelting ==
    (frame # Idle /\ frame.meshRef /\ ~frame.isMelting) =>
        frame.ice = UnmeltedIce(frame.scale)
=============================================================================
